---- MODULE Spec2Model ----
(***************************************************************************)
(* Model of main.py: the one-shot PSX price watcher.                       *)
(*                                                                         *)
(* Every operating-system process that runs main() once is a process of    *)
(* the model.  Processes share only the Redis store (key -> remaining      *)
(* time-to-live in seconds).  Text that the program takes apart (cells,    *)
(* header names, JSON fields) is a sequence of one-character strings; text *)
(* it only compares and joins (symbols, trigger names, keys) is a string.  *)
(* Python's None and float are tagged records.                             *)
(***************************************************************************)
EXTENDS Integers, Sequences, FiniteSets, TLC

VARIABLES
    pc,          \* pc[p]: where process p stands in main()
    thresholds,  \* thresholds[p]: the dict fetch_thresholds_csv returned, in insertion order
    records,     \* records[p]: the dict fetch_all_symbols returned (symbol -> row)
    idx,         \* idx[p]: position of the for-loop of main in thresholds.items()
    sent,        \* sent[p]: the local counter of main
    log,         \* log[p]: history, one entry per return of can_send: the pair, the
                 \* answer, the seconds since the pair's last grant (lastGrant) at the
                 \* call, the outcome of the delivery
    store,       \* the Redis store: key -> remaining seconds to live, 0 = no key
    lastGrant,   \* history: seconds since can_send last returned True for the key, -1 = never
    startedInWindow, \* history: startedInWindow[p]: when p started, every record
                 \* created so far was still unexpired
    given,       \* history: given[p].doc, given[p].feed: what the threshold source and
                 \* the quote source served to p, <<>> before the fetch, else <<it>>
    exc,         \* history: exc[p]: the call of main whose exception ended p, or "none"
    evalLtp,     \* argument ltp of a stand-alone evaluate_trigger call
    evalThr,     \* argument thr of a stand-alone evaluate_trigger call
    evalRes,     \* its result
    evalDone     \* whether the call has returned

vars == <<pc, thresholds, records, idx, sent, log, store, lastGrant,
          startedInWindow, given, exc, evalLtp, evalThr, evalRes, evalDone>>

histVars == <<startedInWindow, given, exc>>
evalVars == <<evalLtp, evalThr, evalRes, evalDone>>

-----------------------------------------------------------------------------
(* Bounds and program constants *)

\* number of processes that run main() against the same store, one run each
NumProcs == 3

\* how many of them run at the same time when runs overlap
MaxOverlap == 2

\* seconds that pass in one step of the clock
TickSec == 900

\* COOLDOWN_MINUTES, default of os.environ.get
COOLDOWN_MIN == 30

\* list(range(1, 11))
WATCH_CODES == 1..10

Procs == 1..NumProcs

-----------------------------------------------------------------------------
(* Python values *)

\* F(v), with v evaluated once before F is applied to it
At(F(_), v) == CHOOSE r \in {F(x) : x \in {v}} : TRUE

None == [kind |-> "None"]
NaN == [kind |-> "nan"]
Float(v) == [kind |-> "float", val |-> v]
Str(s) == [kind |-> "str", val |-> s]

\* a <= b on floats; every comparison with nan is False
FloatLe(a, b) == a.kind = "float" /\ b.kind = "float" /\ a.val <= b.val

LowerChars == <<"a","b","c","d","e","f","g","h","i","j","k","l","m",
                "n","o","p","q","r","s","t","u","v","w","x","y","z">>
UpperChars == <<"A","B","C","D","E","F","G","H","I","J","K","L","M",
                "N","O","P","Q","R","S","T","U","V","W","X","Y","Z">>
Digits == <<"0","1","2","3","4","5","6","7","8","9">>
Whitespace == {" ", "\t", "\r", "\n"}

UpperChar(c) ==
    IF \E i \in 1..26 : LowerChars[i] = c
    THEN UpperChars[CHOOSE i \in 1..26 : LowerChars[i] = c]
    ELSE c

\* str.upper()
Upper(s) == [i \in 1..Len(s) |-> UpperChar(s[i])]

RECURSIVE LStrip(_)
LStrip(s) == IF s # <<>> /\ Head(s) \in Whitespace THEN LStrip(Tail(s)) ELSE s

RECURSIVE RStrip(_)
RStrip(s) ==
    IF s # <<>> /\ s[Len(s)] \in Whitespace THEN RStrip(SubSeq(s, 1, Len(s) - 1)) ELSE s

\* str.strip()
Strip(s) == At(RStrip, LStrip(s))

\* the string made of the characters of cs
RECURSIVE Join(_)
Join(cs) == IF cs = <<>> THEN "" ELSE Head(cs) \o Join(Tail(cs))

\* str.replace(c, "")
RECURSIVE RemoveChar(_, _)
RemoveChar(s, c) ==
    IF s = <<>> THEN <<>>
    ELSE IF Head(s) = c THEN RemoveChar(Tail(s), c)
    ELSE <<Head(s)>> \o RemoveChar(Tail(s), c)

IsDigit(c) == \E i \in 1..10 : Digits[i] = c
DigitVal(c) == (CHOOSE i \in 1..10 : Digits[i] = c) - 1

RECURSIVE DigitsVal(_, _)
DigitsVal(s, acc) ==
    IF s = <<>> THEN acc ELSE DigitsVal(Tail(s), 10 * acc + DigitVal(Head(s)))

AllDigits(s) == s # <<>> /\ \A i \in 1..Len(s) : IsDigit(s[i])

\* float(s) on the literals the model feeds it: surrounding whitespace is
\* ignored, an optional sign and decimal digits give the number, "nan" in any
\* letter case gives nan, anything else raises ValueError (here: None).
FloatOfStripped(t) ==
    IF AllDigits(t) THEN Float(DigitsVal(t, 0))
    ELSE IF t # <<>> /\ Head(t) = "-" /\ AllDigits(Tail(t)) THEN Float(0 - DigitsVal(Tail(t), 0))
    ELSE IF t # <<>> /\ Head(t) = "+" /\ AllDigits(Tail(t)) THEN Float(DigitsVal(Tail(t), 0))
    ELSE IF Upper(t) = <<"N","A","N">> THEN NaN
    ELSE None

PyFloat(s) == At(FloatOfStripped, Strip(s))

-----------------------------------------------------------------------------
(* Trigger evaluation *)

SL_HIT == "SL HIT"
BUY == "BUY"
SELL == "SELL"
TriggerKinds == {SL_HIT, BUY, SELL}

\* a mutant of evaluate_trigger: BUY is tried before SL HIT
evaluate_trigger_buy_first(ltp, thr) ==
    IF ltp = None THEN None
    ELSE IF thr.BUY # None /\ FloatLe(ltp, thr.BUY) THEN Str(BUY)
    ELSE IF thr.SLHIT # None /\ FloatLe(ltp, thr.SLHIT) THEN Str(SL_HIT)
    ELSE IF thr.SELL # None /\ FloatLe(thr.SELL, ltp) THEN Str(SELL)
    ELSE None

\* a mutant of evaluate_trigger: the comparisons are strict
evaluate_trigger_strict(ltp, thr) ==
    IF ltp = None THEN None
    ELSE IF thr.SLHIT # None /\ FloatLe(ltp, thr.SLHIT) /\ ltp # thr.SLHIT THEN Str(SL_HIT)
    ELSE IF thr.BUY # None /\ FloatLe(ltp, thr.BUY) /\ ltp # thr.BUY THEN Str(BUY)
    ELSE IF thr.SELL # None /\ FloatLe(thr.SELL, ltp) /\ ltp # thr.SELL THEN Str(SELL)
    ELSE None

\* a mutant of evaluate_trigger: truthiness tests ("if sl and ...") take a
\* level of 0.0 for an absent one
evaluate_trigger_truthy(ltp, thr) ==
    LET present(x) == x # None /\ x # Float(0) IN
    IF ltp = None THEN None
    ELSE IF present(thr.SLHIT) /\ FloatLe(ltp, thr.SLHIT) THEN Str(SL_HIT)
    ELSE IF present(thr.BUY) /\ FloatLe(ltp, thr.BUY) THEN Str(BUY)
    ELSE IF present(thr.SELL) /\ FloatLe(thr.SELL, ltp) THEN Str(SELL)
    ELSE None

\* evaluate_trigger(ltp, thr): Priority SL HIT -> BUY -> SELL
evaluate_trigger(ltp, thr) ==
    IF ltp = None THEN None
    ELSE IF thr.SLHIT # None /\ FloatLe(ltp, thr.SLHIT) THEN Str(SL_HIT)
    ELSE IF thr.BUY # None /\ FloatLe(ltp, thr.BUY) THEN Str(BUY)
    ELSE IF thr.SELL # None /\ FloatLe(thr.SELL, ltp) THEN Str(SELL)
    ELSE None

\* to_float(x): None stays None, anything else goes through str, loses its
\* commas and surrounding blanks and is parsed; a parse error gives None
to_float(x) ==
    IF x = None THEN None
    ELSE PyFloat(Strip(RemoveChar(x.val, ",")))

-----------------------------------------------------------------------------
(* Threshold source *)

hSYMBOL == <<"S","Y","M","B","O","L">>
hBUY == <<"B","U","Y">>
hSELL == <<"S","E","L","L">>
hSLHIT == <<"S","L","H","I","T">>

\* expected = ["SYMBOL","BUY","SELL","SLHIT"]
expected == <<hSYMBOL, hBUY, hSELL, hSLHIT>>

\* the cells to_num takes for "no level"
Sentinels == { <<>>, <<"N","A">>, <<"N","/","A">>, <<"-">>,
               <<"n","u","l","l">>, <<"N","U","L","L">> }

\* to_num(x) of fetch_thresholds_csv; x is None for a cell the row lacks
to_num(x) ==
    LET t == Strip(IF x = None THEN <<>> ELSE x.val) IN
    IF t \in Sentinels THEN None ELSE PyFloat(t)

\* csv.DictReader: the row as a dict keyed by the field names as written in
\* the header; row[name] raises KeyError when no field has that very name
HasField(header, name) == \E i \in 1..Len(header) : header[i] = name
Field(header, row, name) ==
    LET i == CHOOSE j \in 1..Len(header) : header[j] = name IN
    IF i <= Len(row) THEN Str(row[i]) ELSE None

\* a mutant of DictPut: every row is kept, as in a list of rows
DictPut_append(dict, sym, val) == Append(dict, [symbol |-> sym, thr |-> val])

\* thresholds[sym] = {...}: a new key goes to the end, an old key keeps its place
DictPut(dict, sym, val) ==
    IF \E i \in 1..Len(dict) : dict[i].symbol = sym
    THEN [i \in 1..Len(dict) |->
            IF dict[i].symbol = sym THEN [symbol |-> sym, thr |-> val] ELSE dict[i]]
    ELSE Append(dict, [symbol |-> sym, thr |-> val])

\* the for-loop over the rows of fetch_thresholds_csv; ok = FALSE: KeyError
RECURSIVE ReadRows(_, _, _)
ReadRows(header, rows, dict) ==
    IF rows = <<>> THEN [ok |-> TRUE, dict |-> dict]
    ELSE IF ~ \A n \in {hSYMBOL, hBUY, hSELL, hSLHIT} : HasField(header, n)
    THEN [ok |-> FALSE, dict |-> <<>>]
    ELSE LET row == Head(rows)
             sym == Join(Upper(Strip(Field(header, row, hSYMBOL).val)))
             val == [BUY   |-> to_num(Field(header, row, hBUY)),
                     SELL  |-> to_num(Field(header, row, hSELL)),
                     SLHIT |-> to_num(Field(header, row, hSLHIT))]
         IN ReadRows(header, Tail(rows), DictPut(dict, sym, val))

\* fetch_thresholds_csv(url) on the document the URL serves; ok = FALSE when
\* it raises (HTTP error, ValueError of the header check, KeyError of a row)
fetch_thresholds_csv(doc) ==
    IF ~doc.http_ok THEN [ok |-> FALSE, dict |-> <<>>]
    ELSE IF [i \in 1..Len(doc.header) |-> Upper(Strip(doc.header[i]))] # expected
    THEN [ok |-> FALSE, dict |-> <<>>]
    ELSE ReadRows(doc.header, doc.rows, <<>>)

-----------------------------------------------------------------------------
(* Quote source *)

\* str(x) for the values a JSON field can hold here
PyStr(x) == IF x = None THEN <<"N","o","n","e">> ELSE x.val

\* fetch_code(cookie, code): the rows of one watch code, [] on any failure
fetch_code(feed, c) == IF feed[c].ok THEN feed[c].aData ELSE <<>>

\* all_rows of fetch_all_symbols: the rows of the watch codes in order
RECURSIVE AllRows(_, _)
AllRows(feed, c) ==
    IF c \notin WATCH_CODES THEN <<>> ELSE fetch_code(feed, c) \o AllRows(feed, c + 1)

\* a mutant of BySymbol: a later row of a symbol replaces the earlier one
RECURSIVE BySymbol_last_wins(_, _, _)
BySymbol_last_wins(rows, i, by_symbol) ==
    IF i > Len(rows) THEN by_symbol
    ELSE LET row == rows[i]
             sym == Join(Upper(Strip(PyStr(row.SYMBOL_CODE))))
         IN IF sym = ""
            THEN BySymbol_last_wins(rows, i + 1, by_symbol)
            ELSE BySymbol_last_wins(rows, i + 1,
                          [s \in DOMAIN by_symbol \cup {sym} |->
                              IF s = sym THEN row ELSE by_symbol[s]])

\* the second loop of fetch_all_symbols over rows[i..]: first seen wins
RECURSIVE BySymbol(_, _, _)
BySymbol(rows, i, by_symbol) ==
    IF i > Len(rows) THEN by_symbol
    ELSE LET row == rows[i]
             sym == Join(Upper(Strip(PyStr(row.SYMBOL_CODE))))
         IN IF sym = "" \/ sym \in DOMAIN by_symbol
            THEN BySymbol(rows, i + 1, by_symbol)
            ELSE BySymbol(rows, i + 1,
                          [s \in DOMAIN by_symbol \cup {sym} |->
                              IF s = sym THEN row ELSE by_symbol[s]])

\* fetch_all_symbols(cookie); ok = FALSE when row.get raises AttributeError
\* on an item of aData that is no dict
fetch_all_symbols(feed) ==
    LET rows == AllRows(feed, 1) IN
    IF \E i \in 1..Len(rows) : rows[i].kind # "dict"
    THEN [ok |-> FALSE, dict |-> <<>>]
    ELSE [ok |-> TRUE, dict |-> BySymbol(rows, 1, <<>>)]

-----------------------------------------------------------------------------
(* The documents and feeds the runs are given *)

sAAA == "AAA"
sBBB == "BBB"
cAAA == <<"A","A","A">>
cBBB == <<"B","B","B">>
cCCC == <<"C","C","C">>
cDDD == <<"D","D","D">>
cEEE == <<"E","E","E">>

Row(sym, ltp) == [kind |-> "dict", SYMBOL_CODE |-> sym, LAST_TRADE_PRICE |-> ltp]
NotADict == [kind |-> "int"]
Answer(rows) == [ok |-> TRUE, aData |-> rows]
Failure == [ok |-> FALSE, aData |-> <<>>]

csvGood ==
    [http_ok |-> TRUE, header |-> expected,
     rows |-> << << <<" ","a","a","a">>, <<"5","0">>, <<"1","0","0">>, <<>> >>,
                 << cDDD, <<"5","0">>, <<"1","0","0">>, <<"1","0">> >>,
                 << cBBB, <<"N","A">>, <<"5","0">>, <<"x">> >> >>]
csvDup ==
    [http_ok |-> TRUE, header |-> expected,
     rows |-> << << cAAA, <<"5","0">>, <<"1","0","0">>, <<>> >>,
                 << cCCC, <<"5","0">>, <<"1","0","0">>, <<"1","0">> >>,
                 << cBBB, <<"5","0">>, <<>>, <<"0">> >>,
                 << cAAA, <<"-">>, <<"4","0">> >> >>]
csvNoSlhit == [http_ok |-> TRUE, header |-> <<hSYMBOL, hBUY, hSELL>>, rows |-> csvGood.rows]
csvLower ==
    [http_ok |-> TRUE,
     header |-> << <<"s","y","m","b","o","l">>, <<"b","u","y">>, <<"s","e","l","l">>,
                   <<"s","l","h","i","t">> >>,
     rows |-> csvGood.rows]
csvDown == [http_ok |-> FALSE, header |-> <<>>, rows |-> <<>>]

CsvDocs == {csvGood, csvDup, csvNoSlhit, csvLower, csvDown}

feedA ==
    [c \in WATCH_CODES |->
        IF c = 1 THEN Failure
        ELSE IF c = 2 THEN Answer(<<Row(Str(<<"a","a","a"," ">>), Str(<<"4","5">>)),
                                    Row(Str(<<>>), Str(<<"1">>))>>)
        ELSE IF c = 3 THEN Answer(<<Row(Str(cAAA), Str(<<"1",",","0","4","5">>)),
                                    Row(Str(cBBB), Str(<<"2","0","0">>)),
                                    Row(Str(cDDD), Str(<<"n","/","a">>)),
                                    Row(Str(cEEE), Str(<<"1","0">>))>>)
        ELSE Answer(<<>>)]
feedBad ==
    [c \in WATCH_CODES |->
        IF c = 1 THEN Answer(<<Row(Str(cAAA), Str(<<"4","5">>))>>)
        ELSE IF c = 2 THEN Answer(<<NotADict>>)
        ELSE Answer(<<>>)]

Feeds == {feedA, feedBad}

\* what fetch_all_symbols returns on each of them
FetchedFrom == [feed \in Feeds |-> fetch_all_symbols(feed)]

\* what one watch code can answer when fetch_all_symbols is looked at on its
\* own, and the feeds in which the first FeedCodes watch codes answer so
FeedCodes == 3
FeedAnswers ==
    { Failure,
      Answer(<<>>),
      Answer(<<Row(Str(<<"a","a","a"," ">>), Str(<<"4","5">>))>>),
      Answer(<<Row(Str(cAAA), Str(<<"1",",","0","4","5">>)),
               Row(Str(cBBB), Str(<<"2","0","0">>))>>),
      Answer(<<Row(Str(<<" ">>), Str(<<"1">>)),
               Row(Str(<<"b","b","b">>), Str(<<"5","0">>)),
               Row(None, Str(<<"7">>)),
               Row(Str(cBBB), Str(<<"6","0">>))>>) }
FeedSpace ==
    { [c \in WATCH_CODES |-> IF c <= FeedCodes THEN a[c] ELSE Answer(<<>>)] :
        a \in [1..FeedCodes -> FeedAnswers] }

-----------------------------------------------------------------------------
(* The suppression store *)

\* a mutant of dedup_key: the trigger is left out of the key
dedup_key_symbol_only(symbol, trigger) == "psx_alert:" \o symbol

\* dedup_key(symbol, trigger) = f"psx_alert:{symbol}:{trigger}"
dedup_key(symbol, trigger) == "psx_alert:" \o symbol \o ":" \o trigger

\* the symbols whose trigger is not None in some run, and the keys can_send
\* can ask the store for
Symbols == {sAAA, sBBB}
Keys == {dedup_key(s, t) : s \in Symbols, t \in TriggerKinds}

\* ex=cooldown_min * 60
Ttl(cooldown_min) == cooldown_min * 60

Max(a, b) == IF a >= b THEN a ELSE b
Min(a, b) == IF a <= b THEN a ELSE b

-----------------------------------------------------------------------------
(* main() *)

Finished(p) == pc[p] \in {"done", "raised"}

\* symbol, thr of the current iteration of the for-loop of main
CurSym(p) == thresholds[p][idx[p]].symbol
CurThr(p) == thresholds[p][idx[p]].thr
\* rec = records.get(symbol)
HasRec(p) == CurSym(p) \in DOMAIN records[p]
\* trig = evaluate_trigger(to_float(rec.get("LAST_TRADE_PRICE")), thr)
CurTrig(p) ==
    At(LAMBDA ltp : evaluate_trigger(ltp, CurThr(p)),
       to_float(records[p][CurSym(p)].LAST_TRADE_PRICE))
CurKey(p) == dedup_key(CurSym(p), CurTrig(p).val)

InitRun ==
    /\ pc = [p \in Procs |-> "start"]
    /\ thresholds = [p \in Procs |-> <<>>]
    /\ records = [p \in Procs |-> <<>>]
    /\ idx = [p \in Procs |-> 0]
    /\ sent = [p \in Procs |-> 0]
    /\ log = [p \in Procs |-> <<>>]
    /\ store = [k \in Keys |-> 0]
    /\ lastGrant = [k \in Keys |-> -1]
    /\ startedInWindow = [p \in Procs |-> FALSE]
    /\ given = [p \in Procs |-> [doc |-> <<>>, feed |-> <<>>]]
    /\ exc = [p \in Procs |-> "none"]

Init ==
    /\ InitRun
    /\ evalLtp = None
    /\ evalThr = [BUY |-> None, SELL |-> None, SLHIT |-> None]
    /\ evalRes = None
    /\ evalDone = TRUE

Running == {p \in Procs : pc[p] \notin {"start", "done", "raised"}}

\* a mutant of FetchThresholds: a failure of the threshold source is caught
\* and the run goes on with no thresholds
FetchThresholds_swallow(p) ==
    /\ pc[p] = "start"
    /\ \A q \in Procs : q < p => pc[q] # "start"
    /\ \E doc \in CsvDocs :
        LET r == fetch_thresholds_csv(doc) IN
        /\ thresholds' = [thresholds EXCEPT ![p] = r.dict]
        /\ pc' = [pc EXCEPT ![p] = "fetch_quotes"]
        /\ exc' = exc
        /\ given' = [given EXCEPT ![p].doc = <<doc>>]
    /\ startedInWindow' = [startedInWindow EXCEPT ![p] =
                                \A k \in Keys : lastGrant[k] # -1 => store[k] > 0]
    /\ UNCHANGED <<records, idx, sent, log, store, lastGrant, evalVars>>

\* the process starts and runs thresholds = fetch_thresholds_csv(CSV_URL); an
\* exception ends it.  Processes are started in the order of their numbers.
FetchThresholds(p) ==
    /\ pc[p] = "start"
    /\ \A q \in Procs : q < p => pc[q] # "start"
    /\ \E doc \in CsvDocs :
        LET r == fetch_thresholds_csv(doc) IN
        /\ thresholds' = [thresholds EXCEPT ![p] = r.dict]
        /\ pc' = [pc EXCEPT ![p] = IF r.ok THEN "fetch_quotes" ELSE "raised"]
        /\ exc' = [exc EXCEPT ![p] = IF r.ok THEN "none" ELSE "fetch_thresholds_csv"]
        /\ given' = [given EXCEPT ![p].doc = <<doc>>]
    /\ startedInWindow' = [startedInWindow EXCEPT ![p] =
                                \A k \in Keys : lastGrant[k] # -1 => store[k] > 0]
    /\ UNCHANGED <<records, idx, sent, log, store, lastGrant, evalVars>>

\* records = fetch_all_symbols(COOKIE); sent = 0; the for-loop is entered
FetchAllSymbols(p) ==
    /\ pc[p] = "fetch_quotes"
    /\ \E feed \in Feeds :
        LET r == FetchedFrom[feed] IN
        /\ records' = [records EXCEPT ![p] = r.dict]
        /\ pc' = [pc EXCEPT ![p] = IF r.ok THEN "loop" ELSE "raised"]
        /\ exc' = [exc EXCEPT ![p] = IF r.ok THEN "none" ELSE "fetch_all_symbols"]
        /\ given' = [given EXCEPT ![p].feed = <<feed>>]
    /\ idx' = [idx EXCEPT ![p] = 1]
    /\ sent' = [sent EXCEPT ![p] = 0]
    /\ UNCHANGED <<thresholds, log, store, lastGrant, startedInWindow, evalVars>>

\* a mutant of LoopStep: a symbol with no record or no trigger is looked at
\* again instead of being left for the next one
LoopStep_no_advance(p) ==
    /\ pc[p] = "loop"
    /\ idx[p] <= Len(thresholds[p])
    /\ IF HasRec(p) /\ CurTrig(p) # None
       THEN /\ pc' = [pc EXCEPT ![p] = "exists"]
            /\ idx' = idx
       ELSE /\ idx' = idx
            /\ pc' = pc
    /\ UNCHANGED <<thresholds, records, sent, log, store, lastGrant, histVars, evalVars>>

\* one iteration of the for-loop up to the call of can_send: no record or no
\* trigger goes on to the next symbol
LoopStep(p) ==
    /\ pc[p] = "loop"
    /\ idx[p] <= Len(thresholds[p])
    /\ IF HasRec(p) /\ CurTrig(p) # None
       THEN /\ pc' = [pc EXCEPT ![p] = "exists"]
            /\ idx' = idx
       ELSE /\ idx' = [idx EXCEPT ![p] = idx[p] + 1]
            /\ pc' = pc
    /\ UNCHANGED <<thresholds, records, sent, log, store, lastGrant, histVars, evalVars>>

\* a mutant of can_send_exists: a suppressed attempt renews the key's expiry
can_send_exists_refresh(p) ==
    /\ pc[p] = "exists"
    /\ \/ /\ store[CurKey(p)] > 0
          /\ pc' = [pc EXCEPT ![p] = "loop"]
          /\ idx' = [idx EXCEPT ![p] = idx[p] + 1]
          /\ log' = [log EXCEPT ![p] = Append(log[p],
                        [symbol |-> CurSym(p), trig |-> CurTrig(p).val,
                         gate |-> "denied", age |-> lastGrant[CurKey(p)],
                         telegram |-> "none"])]
          /\ store' = [store EXCEPT ![CurKey(p)] = Ttl(COOLDOWN_MIN)]
          /\ exc' = exc
       \/ /\ store[CurKey(p)] = 0
          /\ pc' = [pc EXCEPT ![p] = "set"]
          /\ UNCHANGED <<idx, log, store, exc>>
       \/ /\ pc' = [pc EXCEPT ![p] = "raised"]
          /\ exc' = [exc EXCEPT ![p] = "can_send"]
          /\ UNCHANGED <<idx, log, store>>
    /\ UNCHANGED <<thresholds, records, sent, lastGrant, startedInWindow, given, evalVars>>

\* a mutant of can_send_exists: a call that finds the key returns True all the
\* same, and main goes on to send
can_send_exists_true(p) ==
    /\ pc[p] = "exists"
    /\ \/ /\ store[CurKey(p)] > 0
          /\ pc' = [pc EXCEPT ![p] = "send"]
          /\ log' = [log EXCEPT ![p] = Append(log[p],
                        [symbol |-> CurSym(p), trig |-> CurTrig(p).val,
                         gate |-> "denied", age |-> lastGrant[CurKey(p)],
                         telegram |-> "none"])]
          /\ exc' = exc
       \/ /\ store[CurKey(p)] = 0
          /\ pc' = [pc EXCEPT ![p] = "set"]
          /\ UNCHANGED <<log, exc>>
       \/ /\ pc' = [pc EXCEPT ![p] = "raised"]
          /\ exc' = [exc EXCEPT ![p] = "can_send"]
          /\ UNCHANGED log
    /\ UNCHANGED <<thresholds, records, idx, sent, store, lastGrant, startedInWindow, given,
                   evalVars>>

\* can_send up to its first return: rconn.exists(key) finds the key and
\* can_send returns False (main goes on to the next symbol), or finds none,
\* or raises because the store cannot be reached (nothing catches it)
can_send_exists(p) ==
    /\ pc[p] = "exists"
    /\ \/ /\ store[CurKey(p)] > 0
          /\ pc' = [pc EXCEPT ![p] = "loop"]
          /\ idx' = [idx EXCEPT ![p] = idx[p] + 1]
          /\ log' = [log EXCEPT ![p] = Append(log[p],
                        [symbol |-> CurSym(p), trig |-> CurTrig(p).val,
                         gate |-> "denied", age |-> lastGrant[CurKey(p)],
                         telegram |-> "none"])]
          /\ exc' = exc
       \/ /\ store[CurKey(p)] = 0
          /\ pc' = [pc EXCEPT ![p] = "set"]
          /\ UNCHANGED <<idx, log, exc>>
       \/ /\ pc' = [pc EXCEPT ![p] = "raised"]
          /\ exc' = [exc EXCEPT ![p] = "can_send"]
          /\ UNCHANGED <<idx, log>>
    /\ UNCHANGED <<thresholds, records, sent, store, lastGrant, startedInWindow, given,
                   evalVars>>

\* rconn.set(key, "1", ex=seconds); return True; or the set raises
SetAndReturn(p, seconds) ==
    /\ pc[p] = "set"
    /\ \/ /\ store' = [store EXCEPT ![CurKey(p)] = seconds]
          /\ lastGrant' = [lastGrant EXCEPT ![CurKey(p)] = 0]
          /\ pc' = [pc EXCEPT ![p] = "send"]
          /\ log' = [log EXCEPT ![p] = Append(log[p],
                        [symbol |-> CurSym(p), trig |-> CurTrig(p).val,
                         gate |-> "granted", age |-> lastGrant[CurKey(p)],
                         telegram |-> "none"])]
          /\ exc' = exc
       \/ /\ pc' = [pc EXCEPT ![p] = "raised"]
          /\ exc' = [exc EXCEPT ![p] = "can_send"]
          /\ UNCHANGED <<store, lastGrant, log>>
    /\ UNCHANGED <<thresholds, records, idx, sent, startedInWindow, given, evalVars>>

\* a mutant of can_send_set: the symbol is suppressed under every trigger kind
can_send_set_all_kinds(p) ==
    /\ pc[p] = "set"
    /\ \/ /\ store' = [k \in Keys |->
                        IF k \in {dedup_key(CurSym(p), t) : t \in TriggerKinds}
                        THEN Ttl(COOLDOWN_MIN) ELSE store[k]]
          /\ lastGrant' = [lastGrant EXCEPT ![CurKey(p)] = 0]
          /\ pc' = [pc EXCEPT ![p] = "send"]
          /\ log' = [log EXCEPT ![p] = Append(log[p],
                        [symbol |-> CurSym(p), trig |-> CurTrig(p).val,
                         gate |-> "granted", age |-> lastGrant[CurKey(p)],
                         telegram |-> "none"])]
          /\ exc' = exc
       \/ /\ pc' = [pc EXCEPT ![p] = "raised"]
          /\ exc' = [exc EXCEPT ![p] = "can_send"]
          /\ UNCHANGED <<store, lastGrant, log>>
    /\ UNCHANGED <<thresholds, records, idx, sent, startedInWindow, given, evalVars>>

\* a mutant of can_send_set: the expiry is given in minutes, not seconds
can_send_set_minutes(p) == SetAndReturn(p, COOLDOWN_MIN)

\* the rest of can_send: the key is set with ex=cooldown_min * 60
can_send_set(p) == SetAndReturn(p, Ttl(COOLDOWN_MIN))

\* a mutant of SendTelegram: the attempt is counted, delivered or not
SendTelegram_count_attempts(p) ==
    /\ pc[p] = "send"
    /\ \E ok \in BOOLEAN :
        /\ sent' = [sent EXCEPT ![p] = sent[p] + 1]
        /\ log' = [log EXCEPT ![p][Len(log[p])].telegram = IF ok THEN "ok" ELSE "failed"]
    /\ pc' = [pc EXCEPT ![p] = "loop"]
    /\ idx' = [idx EXCEPT ![p] = idx[p] + 1]
    /\ UNCHANGED <<thresholds, records, store, lastGrant, histVars, evalVars>>

\* text = format_alert(...); if send_telegram(...): sent += 1
SendTelegram(p) ==
    /\ pc[p] = "send"
    /\ \E ok \in BOOLEAN :
        /\ sent' = [sent EXCEPT ![p] = IF ok THEN sent[p] + 1 ELSE sent[p]]
        /\ log' = [log EXCEPT ![p][Len(log[p])].telegram = IF ok THEN "ok" ELSE "failed"]
    /\ pc' = [pc EXCEPT ![p] = "loop"]
    /\ idx' = [idx EXCEPT ![p] = idx[p] + 1]
    /\ UNCHANGED <<thresholds, records, store, lastGrant, histVars, evalVars>>

\* the for-loop is exhausted: print the summary, main returns
Finish(p) ==
    /\ pc[p] = "loop"
    /\ idx[p] > Len(thresholds[p])
    /\ pc' = [pc EXCEPT ![p] = "done"]
    /\ UNCHANGED <<thresholds, records, idx, sent, log, store, lastGrant, histVars, evalVars>>

\* TickSec seconds pass: Redis expires the keys whose time is up
Tick ==
    /\ \E p \in Procs : ~Finished(p)
    /\ store' = [k \in Keys |-> Max(0, store[k] - TickSec)]
    /\ lastGrant' = [k \in Keys |->
                        IF lastGrant[k] = -1 THEN -1
                        ELSE Min(Ttl(COOLDOWN_MIN), lastGrant[k] + TickSec)]
    /\ UNCHANGED <<pc, thresholds, records, idx, sent, log, histVars, evalVars>>

Step(p) ==
    \/ FetchAllSymbols(p)
    \/ LoopStep(p)
    \/ can_send_exists(p)
    \/ can_send_set(p)
    \/ SendTelegram(p)
    \/ Finish(p)

\* MaxOverlap processes that overlap freely
StartOverlapping(p) == FetchThresholds(p)

Next == Tick \/ \E p \in 1..MaxOverlap : StartOverlapping(p) \/ Step(p)

Spec == Init /\ [][Next]_vars

\* one process after the other: a run starts when the earlier ones have ended
StartAfter(p) == Running = {} /\ FetchThresholds(p)

NextSeq == Tick \/ \E p \in Procs : StartAfter(p) \/ Step(p)

SpecSeq == Init /\ [][NextSeq]_vars

-----------------------------------------------------------------------------
(* evaluate_trigger on its own: calls with arguments of every shape *)

EvalPrices == {None, NaN} \cup {Float(v) : v \in {-1, 0, 45, 50, 90, 100, 200}}
EvalLevels == {None, NaN} \cup {Float(v) : v \in {0, 50, 100}}
EvalThresholds == [BUY : EvalLevels, SELL : EvalLevels, SLHIT : EvalLevels]

InitEval ==
    /\ InitRun
    /\ evalLtp \in EvalPrices
    /\ evalThr \in EvalThresholds
    /\ evalRes = None
    /\ evalDone = FALSE

\* the call returns
EvalReturn ==
    /\ ~evalDone
    /\ evalRes' = evaluate_trigger(evalLtp, evalThr)
    /\ evalDone' = TRUE
    /\ UNCHANGED <<evalLtp, evalThr, pc, thresholds, records, idx, sent, log, store,
                   lastGrant, histVars>>

\* the next call, with the price moved and the same levels
EvalCall ==
    /\ evalDone
    /\ evalLtp' \in EvalPrices
    /\ evalRes' = None
    /\ evalDone' = FALSE
    /\ UNCHANGED <<evalThr, pc, thresholds, records, idx, sent, log, store,
                   lastGrant, histVars>>

NextEval == EvalReturn \/ EvalCall

SpecEval == InitEval /\ [][NextEval]_vars

-----------------------------------------------------------------------------
(* fetch_all_symbols on its own: calls on feeds of every shape *)

\* records = fetch_all_symbols(COOKIE), called by the first process
FetchCall ==
    \E feed \in FeedSpace :
        LET r == fetch_all_symbols(feed) IN
        /\ records' = [records EXCEPT ![1] = r.dict]
        /\ given' = [given EXCEPT ![1].feed = <<feed>>]
        /\ exc' = [exc EXCEPT ![1] = IF r.ok THEN "none" ELSE "fetch_all_symbols"]
        /\ UNCHANGED <<pc, thresholds, idx, sent, log, store, lastGrant, startedInWindow,
                       evalVars>>

NextFetch == FetchCall

SpecFetch == Init /\ [][NextFetch]_vars

-----------------------------------------------------------------------------
(* Runs that are scheduled: a run that has started takes its next step *)

Fairness == \A p \in 1..MaxOverlap : WF_vars(Step(p))

SpecLive == Init /\ [][Next]_vars /\ Fairness

-----------------------------------------------------------------------------
(* Properties *)

TTL == Ttl(COOLDOWN_MIN)

\* the call was made less than a full cooldown after the pair's last grant
InWindow(age) == 0 <= age /\ age < TTL

Entries(p) == 1..Len(log[p])
LogKey(e) == dedup_key(e.symbol, e.trig)
LogPairs(l) == [i \in 1..Len(l) |-> <<l[i].symbol, l[i].trig>>]
Delivered(p) == {i \in Entries(p) : log[p][i].telegram = "ok"}

\* the (symbol, trigger) pairs of a run's thresholds and quotes, in loop order
RECURSIVE TriggeredPairs(_, _, _)
TriggeredPairs(thr, recs, i) ==
    IF i > Len(thr) THEN <<>>
    ELSE LET sym == thr[i].symbol
             trig == IF sym \in DOMAIN recs
                     THEN evaluate_trigger(to_float(recs[sym].LAST_TRADE_PRICE), thr[i].thr)
                     ELSE None
         IN (IF trig = None THEN <<>> ELSE << <<sym, trig.val>> >>)
            \o TriggeredPairs(thr, recs, i + 1)

\* C1 (as claimed): of the can_send calls for one pair that fall into one TTL
\* window exactly one returns True: no call returns True less than a full
\* cooldown after an earlier True for the same pair.  Overlapping processes
\* violate it: both find no key, both set it, both return True.
C1_OneGrantPerWindow ==
    \A p \in Procs : \A i \in Entries(p) :
        log[p][i].gate = "granted" => ~InWindow(log[p][i].age)

\* C2: can_send returns False only when it finds an unexpired record for the
\* pair and goes on to grant only when it finds none; when it returns True the
\* pair's record is in the store with the full cooldown, COOLDOWN_MIN * 60
\* seconds, left to live.
C2_GrantIffNoRecord ==
    [][\A p \in Procs :
        /\ (pc[p] = "exists" /\ pc'[p] = "loop") => store[CurKey(p)] > 0
        /\ (pc[p] = "exists" /\ pc'[p] = "set") => store[CurKey(p)] = 0
        /\ (pc[p] = "set" /\ pc'[p] = "send") =>
              /\ store'[CurKey(p)] = COOLDOWN_MIN * 60
              /\ lastGrant'[CurKey(p)] = 0]_vars

\* C2 witness: a call has just returned True and its record has the full
\* cooldown to live, while another process was refused the same pair
C2_Witness ==
    \E p, q \in Procs :
        /\ pc[p] = "send"
        /\ store[CurKey(p)] = COOLDOWN_MIN * 60
        /\ \E i \in Entries(q) : log[q][i].gate = "denied" /\ LogKey(log[q][i]) = CurKey(p)

\* C3: a can_send call that returns False leaves the whole store as it was:
\* the pair's record keeps its remaining time and no other record changes.
C3_DeniedKeepsStore ==
    [][\A p \in Procs : (pc[p] = "exists" /\ pc'[p] = "loop") => store' = store]_vars

\* C3 witness: a call was refused when part of the record's time had passed,
\* and the record still has just the rest of its time
C3_Witness ==
    \E p \in Procs : \E i \in Entries(p) :
        /\ log[p][i].gate = "denied"
        /\ log[p][i].age = TickSec
        /\ store[LogKey(log[p][i])] = TTL - TickSec

\* C4: with one call after the other, a call for a pair is granted exactly
\* when the pair was never granted before or a full cooldown has passed since
\* its last grant: the first call returns True, every call inside the window
\* returns False, the first call after the window returns True again.
C4_GrantedIffWindowOver ==
    \A p \in Procs : \A i \in Entries(p) :
        (log[p][i].gate = "granted") <=> ~InWindow(log[p][i].age)

\* C4 witness: one pair was granted to the first run, refused to the second
\* inside the window and granted again to the third after the window
C4_Witness ==
    \E i \in Entries(1), j \in Entries(2), k \in Entries(3) :
        /\ LogKey(log[1][i]) = LogKey(log[2][j])
        /\ LogKey(log[2][j]) = LogKey(log[3][k])
        /\ log[1][i].gate = "granted" /\ log[1][i].age = -1
        /\ log[2][j].gate = "denied" /\ InWindow(log[2][j].age)
        /\ log[3][k].gate = "granted" /\ log[3][k].age >= TTL

\* symbols that hold a colon or a trigger name themselves
ColonSymbols == {"AAA:BUY", "AAA:", ":", "BUY"}

\* different pairs have different keys
KeysDiffer ==
    \A s1, s2 \in Symbols \cup ColonSymbols : \A t1, t2 \in TriggerKinds :
        <<s1, t1>> # <<s2, t2>> => dedup_key(s1, t1) # dedup_key(s2, t2)

\* C5: different (symbol, trigger) pairs have different keys, and the step in
\* which can_send grants one pair leaves the record of every other pair as it
\* was, so what a later can_send for another pair finds does not depend on it.
C5_OtherPairsUntouched ==
    [][/\ KeysDiffer
       /\ \A p \in Procs :
            (pc[p] = "set" /\ pc'[p] = "send") =>
                \A s \in Symbols : \A t \in TriggerKinds :
                    <<s, t>> # <<CurSym(p), CurTrig(p).val>> =>
                        store'[dedup_key(s, t)] = store[dedup_key(s, t)]]_vars

\* C5 witness: AAA/SELL was granted, time passed, then AAA/BUY and BBB/SELL
\* were granted: the later grants left the remaining time of AAA/SELL alone
C5_Witness ==
    /\ store[dedup_key(sAAA, SELL)] = TTL - TickSec
    /\ store[dedup_key(sAAA, BUY)] = TTL
    /\ store[dedup_key(sBBB, SELL)] = TTL

\* the priority chain of the specification
Chain(price, thr) ==
    IF thr.SLHIT # None /\ FloatLe(price, thr.SLHIT) THEN Str(SL_HIT)
    ELSE IF thr.BUY # None /\ FloatLe(price, thr.BUY) THEN Str(BUY)
    ELSE IF thr.SELL # None /\ FloatLe(thr.SELL, price) THEN Str(SELL)
    ELSE None

\* C6: for every price and every combination of levels present or absent the
\* result of evaluate_trigger is that of the strict priority chain SL HIT,
\* BUY, SELL, none; slHit=100, buy=100, sell=50 and price 90 give SL HIT.
C6_PriorityChain ==
    evalDone =>
        /\ evalRes \in {None} \cup {Str(t) : t \in TriggerKinds}
        /\ evalRes = Chain(evalLtp, evalThr)
        /\ (/\ evalLtp = Float(90)
            /\ evalThr = [SLHIT |-> Float(100), BUY |-> Float(100), SELL |-> Float(50)])
           => evalRes = Str(SL_HIT)

\* C6 witness: the call with slHit=100, buy=100, sell=50 and price 90 returned
C6_Witness ==
    /\ evalDone
    /\ evalLtp = Float(90)
    /\ evalThr = [SLHIT |-> Float(100), BUY |-> Float(100), SELL |-> Float(50)]
    /\ evalRes = Str(SL_HIT)

OnlyLevel(thr, name) == \A n \in {"BUY", "SELL", "SLHIT"} : n # name => thr[n] = None

\* C7: the comparisons are inclusive: with a single level configured and the
\* price equal to it, buy gives BUY, sell gives SELL and slHit gives SL HIT.
C7_Inclusive ==
    (evalDone /\ evalLtp.kind = "float") =>
        /\ (OnlyLevel(evalThr, "BUY") /\ evalThr.BUY = evalLtp) => evalRes = Str(BUY)
        /\ (OnlyLevel(evalThr, "SELL") /\ evalThr.SELL = evalLtp) => evalRes = Str(SELL)
        /\ (OnlyLevel(evalThr, "SLHIT") /\ evalThr.SLHIT = evalLtp) => evalRes = Str(SL_HIT)

\* C7 witness: only sell=100 is configured and the price 100 gave SELL
C7_Witness ==
    /\ evalDone
    /\ evalLtp = Float(100)
    /\ evalThr = [SLHIT |-> None, BUY |-> None, SELL |-> Float(100)]
    /\ evalRes = Str(SELL)

\* C8: an absent price gives none whatever the levels; a kind is returned only
\* when its level is present, so with no level present every price, zero and
\* below included, gives none; a level that is present and zero is compared
\* like any other.
C8_AbsenceIsNotZero ==
    evalDone =>
        /\ evalLtp = None => evalRes = None
        /\ evalRes = Str(SL_HIT) => evalThr.SLHIT # None
        /\ evalRes = Str(BUY) => evalThr.BUY # None
        /\ evalRes = Str(SELL) => evalThr.SELL # None
        /\ (evalLtp.kind = "float" /\ OnlyLevel(evalThr, "SLHIT") /\ evalThr.SLHIT = Float(0))
           => (evalRes = Str(SL_HIT) <=> evalLtp.val <= 0)
        /\ (evalLtp.kind = "float" /\ OnlyLevel(evalThr, "BUY") /\ evalThr.BUY = Float(0))
           => (evalRes = Str(BUY) <=> evalLtp.val <= 0)
        /\ (evalLtp.kind = "float" /\ OnlyLevel(evalThr, "SELL") /\ evalThr.SELL = Float(0))
           => (evalRes = Str(SELL) <=> evalLtp.val >= 0)

\* C8 witness: slHit and sell are absent, buy is present and zero, and the
\* price zero gave BUY: the absent slHit did not fire, the zero buy did
C8_Witness ==
    /\ evalDone
    /\ evalLtp = Float(0)
    /\ evalThr = [SLHIT |-> None, BUY |-> Float(0), SELL |-> None]
    /\ evalRes = Str(BUY)

\* the first two runs have ended with their summary and had the same
\* thresholds and quotes (the store is empty when the first starts)
SameInputs12 ==
    /\ pc[1] = "done" /\ pc[2] = "done"
    /\ thresholds[1] = thresholds[2]
    /\ records[1] = records[2]

\* C9 (as claimed): when the second run starts inside the cooldown window of
\* the first (and the deliveries of the first succeed), the first run has
\* notified and counted every triggered symbol and the second has computed
\* the same triggers, was refused each and reports 0.
C9_SecondRunStartedInWindow ==
    (/\ SameInputs12
     /\ startedInWindow[2]
     /\ \A i \in Entries(1) : log[1][i].telegram = "ok")
    => /\ LogPairs(log[1]) = TriggeredPairs(thresholds[1], records[1], 1)
       /\ \A i \in Entries(1) : log[1][i].gate = "granted"
       /\ sent[1] = Len(log[1])
       /\ LogPairs(log[2]) = LogPairs(log[1])
       /\ \A i \in Entries(2) : log[2][i].gate = "denied"
       /\ sent[2] = 0

\* C9 (amended): the first run is granted every triggered symbol, attempts
\* its notification and counts the delivered ones; the second run computes
\* the same triggers and is refused at every gate call it makes before the
\* first run's record for the pair has expired; when that is every one of its
\* gate calls it reports 0.
C9_SecondRunCallsInWindow ==
    SameInputs12
    => /\ LogPairs(log[1]) = TriggeredPairs(thresholds[1], records[1], 1)
       /\ \A i \in Entries(1) : log[1][i].gate = "granted" /\ log[1][i].telegram # "none"
       /\ sent[1] = Cardinality(Delivered(1))
       /\ LogPairs(log[2]) = LogPairs(log[1])
       /\ \A i \in Entries(2) : InWindow(log[2][i].age) => log[2][i].gate = "denied"
       /\ sent[2] = Cardinality(Delivered(2))
       /\ (\A i \in Entries(2) : InWindow(log[2][i].age)) => sent[2] = 0

\* C9 witness: both runs triggered AAA and BBB; the first sent and counted
\* both, the second was refused both inside the window and reports 0
C9_Witness ==
    /\ SameInputs12
    /\ Len(log[1]) = 2 /\ sent[1] = 2
    /\ Len(log[2]) = 2 /\ sent[2] = 0
    /\ \A i \in Entries(2) : log[2][i].gate = "denied" /\ InWindow(log[2][i].age)

\* C10: in a run no symbol has more than one notification attempted and none
\* is counted more than once, whatever rows and quote records came in.
C10_OncePerSymbol ==
    \A p \in Procs :
        /\ \A i, j \in Entries(p) :
              (i # j /\ log[p][i].gate = "granted" /\ log[p][j].gate = "granted")
              => log[p][i].symbol # log[p][j].symbol
        /\ sent[p] = Cardinality({log[p][i].symbol : i \in Delivered(p)})

\* C10 witness: a run whose thresholds had two rows for AAA and whose quotes
\* had AAA from two watch codes has ended with AAA notified and counted once
C10_Witness ==
    \E p \in Procs :
        /\ pc[p] = "done"
        /\ thresholds[p] = fetch_thresholds_csv(csvDup).dict
        /\ records[p] = fetch_all_symbols(feedA).dict
        /\ sent[p] = 1
        /\ \E i \in Delivered(p) : log[p][i].symbol = sAAA

\* the pairs of a sequence of pairs
Range(f) == {f[i] : i \in 1..Len(f)}

\* C11: a send_telegram call is made only for the symbol of the current
\* iteration, after evaluate_trigger gave it a trigger other than None and
\* after can_send returned True for just that symbol and trigger; every
\* notification ever attempted in a run belongs to such a granted call.
C11_SendOnlyAfterGrant ==
    \A p \in Procs :
        /\ pc[p] = "send" =>
              /\ idx[p] \in 1..Len(thresholds[p])
              /\ HasRec(p)
              /\ CurTrig(p) # None
              /\ log[p] # <<>>
              /\ log[p][Len(log[p])].gate = "granted"
              /\ log[p][Len(log[p])].symbol = CurSym(p)
              /\ log[p][Len(log[p])].trig = CurTrig(p).val
        /\ \A i \in Entries(p) :
              log[p][i].telegram # "none" =>
                  /\ log[p][i].gate = "granted"
                  /\ <<log[p][i].symbol, log[p][i].trig>>
                        \in Range(TriggeredPairs(thresholds[p], records[p], 1))

\* C11 witness: a run has ended in which one symbol was refused by can_send
\* and got no notification and another was granted and notified
C11_Witness ==
    \E p \in Procs :
        /\ pc[p] = "done"
        /\ \E i, j \in Entries(p) :
              /\ log[p][i].gate = "denied" /\ log[p][i].telegram = "none"
              /\ log[p][j].gate = "granted" /\ log[p][j].telegram = "ok"

\* C12 (as claimed): a can_send call that finds the store unreachable comes
\* back with a decision and the run goes on to its summary: no run is ended by
\* an exception of can_send.  The code catches nothing around rconn.exists
\* and rconn.set, so the exception ends the run.
C12_StoreFailureNotFatal ==
    \A p \in Procs : ~(pc[p] = "raised" /\ exc[p] = "can_send")

\* the header names the four columns, letter case and blanks aside
FourColumns(header) == [i \in 1..Len(header) |-> Upper(Strip(header[i]))] = expected

\* C13: a run whose threshold source cannot be fetched or whose header is not
\* the four columns ends with the exception of fetch_thresholds_csv, and such
\* a run has fetched no quotes, made no can_send call and sent nothing; the
\* step that fails leaves the store as it was.
C13_ThresholdFailureAborts ==
    /\ [](\A p \in Procs :
            /\ \A d \in CsvDocs :
                  (given[p].doc = <<d>> /\ (~d.http_ok \/ ~FourColumns(d.header)))
                  => exc[p] = "fetch_thresholds_csv"
            /\ exc[p] = "fetch_thresholds_csv" =>
                  /\ pc[p] = "raised"
                  /\ given[p].feed = <<>>
                  /\ records[p] = <<>>
                  /\ log[p] = <<>>
                  /\ sent[p] = 0)
    /\ [][\A p \in Procs :
            (pc[p] = "start" /\ pc'[p] = "raised") =>
                store' = store /\ lastGrant' = lastGrant]_vars

\* C13 witness: a run was served a header without SLHIT and a later run a
\* source that cannot be fetched; both have ended and neither fetched a quote
C13_Witness ==
    \E p, q \in Procs :
        /\ given[p].doc = <<csvNoSlhit>> /\ pc[p] = "raised" /\ given[p].feed = <<>>
        /\ given[q].doc = <<csvDown>> /\ pc[q] = "raised" /\ given[q].feed = <<>>

\* C14: the step that makes the send_telegram call always returns to the loop
\* at the next symbol; a failed delivery leaves the counter as it was and a
\* successful one adds one, so that the counter, at the summary too, is the
\* number of send_telegram calls of the run that returned True.
C14_FailedDeliveryNotCounted ==
    /\ [](\A p \in Procs : sent[p] = Cardinality(Delivered(p)))
    /\ [][\A p \in Procs :
            (pc[p] = "send" /\ pc'[p] # "send") =>
                /\ pc'[p] = "loop"
                /\ idx'[p] = idx[p] + 1
                /\ log'[p][Len(log[p])].telegram \in {"ok", "failed"}
                /\ log'[p][Len(log[p])].telegram = "failed" => sent'[p] = sent[p]
                /\ log'[p][Len(log[p])].telegram = "ok" => sent'[p] = sent[p] + 1]_vars

\* C14 witness: a run has ended with its summary; its first delivery failed,
\* the loop went on, the second delivery succeeded and the count is 1
C14_Witness ==
    \E p \in Procs :
        /\ pc[p] = "done"
        /\ Len(log[p]) = 2
        /\ log[p][1].telegram = "failed"
        /\ log[p][2].telegram = "ok"
        /\ sent[p] = 1

\* C15 (as claimed): a record that has not expired belongs to a pair for which
\* a notification was delivered (or is just being delivered by the run that
\* created the record).  The code creates the record in can_send, before the
\* delivery, and leaves it there when the delivery fails.
C15_RecordOnlyIfSent ==
    \A k \in Keys :
        store[k] > 0 =>
            \/ \E p \in Procs : \E i \in Delivered(p) : LogKey(log[p][i]) = k
            \/ \E p \in Procs : pc[p] = "send" /\ CurKey(p) = k

\* the step is one of process p
StepOf(p) == pc'[p] # pc[p] \/ idx'[p] # idx[p]

\* the symbols of a run's threshold store
ThresholdSymbols(p) == {thresholds[p][i].symbol : i \in 1..Len(thresholds[p])}

\* C16: a step of a run changes the store only as the set of can_send for
\* the symbol of the current iteration, which has a threshold entry, a quote
\* record and a trigger other than None, and only in the record of that
\* symbol and trigger; the iteration of a symbol with no quote or with no
\* trigger changes no record, counts nothing and calls neither can_send nor
\* send_telegram; no can_send call is ever made for a symbol that lacks a
\* threshold entry or a quote.
C16_OnlyTriggeredPairsWritten ==
    /\ [](\A p \in Procs : \A i \in Entries(p) :
            log[p][i].symbol \in ThresholdSymbols(p) \cap DOMAIN records[p])
    /\ [][\A p \in Procs :
            /\ (StepOf(p) /\ store' # store) =>
                  /\ pc[p] = "set"
                  /\ CurSym(p) \in ThresholdSymbols(p)
                  /\ HasRec(p)
                  /\ CurTrig(p) # None
                  /\ \A s \in Symbols : \A t \in TriggerKinds :
                        <<s, t>> # <<CurSym(p), CurTrig(p).val>> =>
                            store'[dedup_key(s, t)] = store[dedup_key(s, t)]
            /\ (/\ StepOf(p)
                /\ pc[p] = "loop"
                /\ idx[p] <= Len(thresholds[p])
                /\ (~HasRec(p) \/ CurTrig(p) = None)) =>
                  /\ store' = store
                  /\ sent'[p] = sent[p]
                  /\ log'[p] = log[p]
                  /\ pc'[p] = "loop"]_vars

\* C16 witness: a run has ended whose thresholds had CCC without a quote and
\* BBB without a trigger and whose quotes had EEE without thresholds; the only
\* record in the store is that of AAA and its trigger
C16_Witness ==
    \E p \in Procs :
        /\ pc[p] = "done"
        /\ given[p].doc = <<csvDup>>
        /\ given[p].feed = <<feedA>>
        /\ Len(log[p]) = 1
        /\ log[p][1].symbol = sAAA
        /\ store[LogKey(log[p][1])] > 0
        /\ \A k \in Keys : store[k] > 0 => k = LogKey(log[p][1])

\* C17 (as claimed): whatever a watch code answers, failed or malformed, the
\* run is not ended by fetch_all_symbols.  An answer whose aData holds an item
\* that is no dict passes fetch_code and makes row.get raise in
\* fetch_all_symbols, outside every try.
C17_BadResponseNotFatal ==
    \A p \in Procs : ~(pc[p] = "raised" /\ exc[p] = "fetch_all_symbols")

\* the symbol of a quote row, trimmed and upper-cased
NormSym(row) == Join(Upper(Strip(PyStr(row.SYMBOL_CODE))))

\* the rows the watch codes of a feed answered, in watch-code order
RowsInOrder(feed) == AllRows(feed, 1)

\* the first row of a symbol
FirstRow(rows, sym) == rows[CHOOSE i \in 1..Len(rows) :
                               /\ NormSym(rows[i]) = sym
                               /\ \A j \in 1..(i - 1) : NormSym(rows[j]) # sym]

\* C18: the snapshot fetch_all_symbols returns has just the non-empty symbols
\* of the rows the watch codes answered (a failed watch code answers none),
\* and holds for each the first of its rows in watch-code order.
C18_FirstSeenWins ==
    \A p \in Procs : \A f \in FeedSpace :
        (given[p].feed = <<f>> /\ exc[p] = "none") =>
            LET rows == RowsInOrder(f) IN
            /\ DOMAIN records[p] = {NormSym(rows[i]) : i \in 1..Len(rows)} \ {""}
            /\ \A sym \in DOMAIN records[p] : records[p][sym] = FirstRow(rows, sym)

\* C18 witness: the first watch code failed, the second answered "aaa " at
\* 45, the third AAA at 1,045 and BBB: the snapshot has AAA at 45 and BBB
C18_Witness ==
    /\ given[1].feed # <<>>
    /\ ~given[1].feed[1][1].ok
    /\ Len(given[1].feed[1][2].aData) = 1
    /\ Len(given[1].feed[1][3].aData) = 2
    /\ DOMAIN records[1] = {sAAA, sBBB}
    /\ records[1][sAAA].LAST_TRADE_PRICE = Str(<<"4","5">>)

\* C19 (as claimed): a threshold source whose header names the four columns,
\* in whatever letter case, is accepted and its rows are loaded.  The header
\* check is made on the upper-cased names, but the rows are read with
\* row["SYMBOL"], row["BUY"], ...: a lower-case header passes the check and
\* the first row raises KeyError.
C19_HeaderCaseInsensitive ==
    \A p \in Procs : \A d \in CsvDocs :
        (given[p].doc = <<d>> /\ d.http_ok /\ FourColumns(d.header)) =>
            /\ exc[p] # "fetch_thresholds_csv"
            /\ thresholds[p] = ReadRows(expected, d.rows, <<>>).dict

\* C20: a run that has started comes to its end; once the thresholds and the
\* quotes are fetched it goes through the threshold store once, one symbol
\* after the other and never back, and ends with the summary, whatever watch
\* codes failed, whatever fields were malformed and whatever deliveries
\* failed: in the loop only an exception of can_send ends it otherwise.  A
\* run that has ended takes no further step.
C20_RunTerminates ==
    /\ \A p \in 1..MaxOverlap : (pc[p] # "start") ~> Finished(p)
    /\ [](\A p \in Procs :
            /\ pc[p] = "done" => (idx[p] = Len(thresholds[p]) + 1 /\ exc[p] = "none")
            /\ exc[p] \in {"none", "fetch_thresholds_csv", "fetch_all_symbols", "can_send"})
    /\ [][\A p \in Procs :
            /\ idx'[p] \in {idx[p], idx[p] + 1}
            /\ (idx'[p] = idx[p] + 1 /\ idx[p] > 0) => idx[p] <= Len(thresholds[p])
            /\ idx[p] > 0 => thresholds'[p] = thresholds[p]
            /\ (pc[p] \in {"loop", "exists", "set", "send"} /\ pc'[p] = "raised")
                  => (pc[p] \in {"exists", "set"} /\ exc'[p] = "can_send")
            /\ Finished(p) => (pc'[p] = pc[p] /\ sent'[p] = sent[p])]_vars

\* C20 witness: a run has ended with its summary after a pass over three
\* symbols in which a watch code had failed, the price of DDD was malformed
\* and a delivery failed
C20_Witness ==
    \E p \in Procs :
        /\ pc[p] = "done"
        /\ given[p].doc = <<csvGood>>
        /\ given[p].feed = <<feedA>>
        /\ ~feedA[1].ok
        /\ to_float(records[p]["DDD"].LAST_TRADE_PRICE) = None
        /\ idx[p] = 4
        /\ \E i \in Entries(p) : log[p][i].telegram = "failed"

====
